---- MODULE Spec2Model ----
(***************************************************************************)
(* Model of the dentist appointment proxy (Express server in front of a    *)
(* Google Calendar).  Three variants of the server are modelled:           *)
(*   "server.js", "part_000" and "part_001"; they share the route handlers *)
(* and differ in the auth middleware and in the open paths.                *)
(*                                                                         *)
(* JavaScript values: an optional value (a header, a body field, an        *)
(* environment variable) is a sequence of length 0 (undefined / absent)    *)
(* or of length 1 (the value).  Strings are TLA+ strings.                  *)
(***************************************************************************)
EXTENDS Integers, Sequences, FiniteSets, TLC

VARIABLES
    variant,        \* which server file is running
    REQUIRED_KEY,   \* process.env.MCP_API_KEY, read once at start-up
    calendar,       \* the events held by the remote calendar
    nextId,         \* number of event ids the calendar has assigned
    uuidCount,      \* number of values uuidv4() has produced
    issued,         \* history: the tokens sent in {available:true, token} responses
    conn            \* per caller: the request being served and its response

vars == <<variant, REQUIRED_KEY, calendar, nextId, uuidCount, issued, conn>>

----------------------------------------------------------------------------
(* Bounds *)

MaxTokens == 2      \* uuidv4() is called at most this many times
MaxEvents == 2      \* the calendar assigns at most this many event ids

Variants == {"server.js", "part_000", "part_001"}

----------------------------------------------------------------------------
(* JavaScript helpers *)

Undefined == << >>
Some(v) == << v >>

\* !x for an optional string: undefined and "" are falsy
Falsy(x) == x = Undefined \/ x = Some("")

\* Object.keys(body)
ObjectKeys(body) == {k \in DOMAIN body : body[k] # Undefined}

----------------------------------------------------------------------------
(* Timestamps.  A date-time string of June 2024 with a UTC offset,         *)
(* "2024-06-<date>T<hour>:00:00+<off>:00", is the record                   *)
(* [date, hour, off].  new Date(s) is the instant, in hours since          *)
(* 2024-06-00T00:00Z.                                                      *)

Stamp(d, h, o) == [date |-> d, hour |-> h, off |-> o]

DateParse(s) == s.date * 24 + s.hour - s.off

\* Date.prototype.getUTCDay: 0 = Sunday .. 6 = Saturday (2024-06-01 is a Saturday)
getUTCDay(t) == ((t \div 24) + 5) % 7

\* a weekend test that forgets Saturday
isWeekendSundayOnly(dateString) ==
    IF dateString = Undefined THEN FALSE
    ELSE getUTCDay(DateParse(dateString[1])) = 0

\* new Date(undefined) is an Invalid Date: getUTCDay() is NaN, equal to nothing
isWeekend(dateString) ==
    IF dateString = Undefined THEN FALSE
    ELSE LET d == DateParse(dateString[1])
         IN  getUTCDay(d) = 0 \/ getUTCDay(d) = 6

PlusHour(s) == Stamp(s.date, s.hour + 1, s.off)

----------------------------------------------------------------------------
(* Requests *)

Body(s, e, t, id, ti) ==
    [start |-> s, end |-> e, token |-> t, eventId |-> id, title |-> ti]

EmptyBody == Body(Undefined, Undefined, Undefined, Undefined, Undefined)

Request(m, p, k, b) == [method |-> m, path |-> p, key |-> k, body |-> b]

NoRequest == Request("", "", Undefined, EmptyBody)

\* start values offered to /check and /create
SatNZ == Stamp(8, 9, 12)     \* Saturday 09:00 at +12:00 = Friday 21:00 UTC
SatZ  == Stamp(8, 9, 0)      \* Saturday 09:00 UTC
MonNZ == Stamp(10, 9, 12)    \* Monday 09:00 at +12:00 = Sunday 21:00 UTC
MonZ  == Stamp(10, 9, 0)     \* Monday 09:00 UTC
Later == Stamp(11, 9, 0)     \* Tuesday 09:00 UTC

Starts == {SatNZ, SatZ, MonNZ, MonZ}

Intervals ==
    {<<Some(s), Some(PlusHour(s))>> : s \in Starts}
        \cup {<<Some(SatZ), Some(Later)>>, <<Some(MonZ), Undefined>>}

Keys == {Undefined, Some(""), Some("secret"), Some("wrong")}

UuidPool == <<"uuid-1", "uuid-2", "uuid-3", "uuid-4">>

\* token values a caller may present: none, "", a made-up one, or one it was given
TokensOffered ==
    {Undefined, Some(""), Some("forged")} \cup {Some(UuidPool[n]) : n \in 1..uuidCount}

EventIds == {Undefined} \cup {Some(n) : n \in 1..MaxEvents}

CheckBodies ==
    {EmptyBody}
        \cup {Body(i[1], i[2], Undefined, Undefined, Undefined) : i \in Intervals}

CreateBodies ==
    {EmptyBody}
        \cup {Body(Some(s), Some(PlusHour(s)), t, Undefined, Some("Cleaning")) :
                s \in {SatNZ, MonZ}, t \in TokensOffered}

UpdateBodies ==
    {EmptyBody}
        \cup {Body(Some(MonZ), Some(PlusHour(MonZ)), Undefined, id, Undefined) :
                id \in EventIds}

DeleteBodies ==
    {Body(Undefined, Undefined, Undefined, id, Undefined) : id \in EventIds}

ToolPaths == {"/check", "/create", "/update", "/delete"}

BodiesOf(path) ==
    CASE path = "/check"  -> CheckBodies
      [] path = "/create" -> CreateBodies
      [] path = "/update" -> UpdateBodies
      [] path = "/delete" -> DeleteBodies
      [] OTHER -> {EmptyBody}

----------------------------------------------------------------------------
(* Responses *)

Response(st, b) == [status |-> st, body |-> b]

Unauthorized == Response(401, [error |-> "Unauthorized"])

----------------------------------------------------------------------------
(* Middleware *)

\* cors() answers every OPTIONS request itself (204) and passes the rest on
corsPreflight(req) == req.method = "OPTIONS"

openPaths(v) ==
    CASE v = "server.js" ->
            {"/", "/status", "/mcp.json", "/.well-known/mcp.json",
             "/__vf_mcp_check", "/__vf_mcp_validate"}
      [] v = "part_000" ->
            {"/", "/status", "/mcp.json", "/.well-known/mcp.json",
             "/__vf_mcp_check"}
      [] v = "part_001" ->
            {"/", "/status", "/mcp.json", "/.well-known/mcp.json",
             "/__vf_mcp_check", "/__mcp/handshake", "/__vf_mcp_validate"}

\* the middleware without its empty-body probe line
authProbeNoBypass(v, req, required) ==
    IF req.path \in openPaths(v) THEN "next"
    ELSE IF Falsy(req.key) /\ req.method = "OPTIONS" THEN "200"
    ELSE IF req.key # required THEN "401"
    ELSE "next"

\* the middleware with the empty-body probe line outside the "no key" test
authProbeAnyKey(v, req, required) ==
    IF req.path \in openPaths(v) THEN "next"
    ELSE IF Falsy(req.key) /\ req.method = "OPTIONS" THEN "200"
    ELSE IF ObjectKeys(req.body) = {} THEN "next"
    ELSE IF req.key # required THEN "401"
    ELSE "next"

\* the auth middleware of server.js and part_000: "next", or the status it sends
authProbe(v, req, required) ==
    IF req.path \in openPaths(v) THEN "next"
    ELSE IF Falsy(req.key) /\ req.method = "OPTIONS" THEN "200"
    ELSE IF Falsy(req.key) /\ ObjectKeys(req.body) = {} THEN "next"
    ELSE IF req.key # required THEN "401"
    ELSE "next"

\* a strict middleware that only asks for a key to be there
authStrictPresenceOnly(v, req, required) ==
    IF req.path \in openPaths(v) THEN "next"
    ELSE IF Falsy(req.key) THEN "401"
    ELSE "next"

\* the auth middleware of part_001
authStrict(v, req, required) ==
    IF req.path \in openPaths(v) THEN "next"
    ELSE IF Falsy(req.key) \/ req.key # required THEN "401"
    ELSE "next"

auth(v, req, required) ==
    IF v = "part_001" THEN authStrict(v, req, required)
    ELSE authProbe(v, req, required)

\* the request reaches the route handlers
Passes(req) ==
    /\ ~corsPreflight(req)
    /\ auth(variant, req, REQUIRED_KEY) = "next"

----------------------------------------------------------------------------
(* Calendar gateway (Google Calendar, reached through googleapis) *)

Event(id, s, e) == [id |-> id, start |-> s, end |-> e]

Call(op, id, s, e) == [op |-> op, eventId |-> id, start |-> s, end |-> e]

\* what a failed gateway call rejects with: err.message and err.response?.data
GatewayErrors ==
    {[message |-> m, data |-> d] :
        m \in {"Not Found", "Rate Limit Exceeded"},
        d \in {Undefined, Some("upstream detail")}}

\* events.list: the events that end after timeMin and start before timeMax
listItems(cal, timeMin, timeMax) ==
    {e \in cal :
        /\ IF timeMin = Undefined THEN TRUE
           ELSE DateParse(e.end) > DateParse(timeMin[1])
        /\ IF timeMax = Undefined THEN TRUE
           ELSE DateParse(e.start) < DateParse(timeMax[1])}

\* the calendar refuses an empty or inverted time range
RangeOk(s, e) ==
    IF s = Undefined \/ e = Undefined THEN TRUE ELSE DateParse(s[1]) < DateParse(e[1])

SlotOk(s, e) ==
    IF s = Undefined \/ e = Undefined THEN FALSE ELSE DateParse(s[1]) < DateParse(e[1])

\* console.error(tag, err.response?.data || err)
consoleError(tag, err) ==
    [tag |-> tag,
     value |-> IF err.data # Undefined THEN err.data ELSE Some(err.message)]

----------------------------------------------------------------------------
(* Connections.  For the request a caller has sent last:                   *)
(*   stage   where it ended or is: "cors", "auth" or "route"               *)
(*   calls   the gateway calls issued for it                               *)
(*   got     the gateway's answers: ok, the number of items of a list,     *)
(*           and the error of a failure                                    *)
(*   minted  the tokens uuidv4() produced for it                           *)
(*   logged  what it wrote with console.error                              *)
(*   resp    the responses sent                                            *)

Idle == [pc |-> "idle", req |-> NoRequest, stage |-> "", resp |-> << >>,
         calls |-> << >>, got |-> << >>, minted |-> << >>, logged |-> << >>]

\* a request answered without a gateway call
Answered(req, stage, logged, resp) ==
    [pc |-> "done", req |-> req, stage |-> stage, resp |-> << resp >>,
     calls |-> << >>, got |-> << >>, minted |-> << >>, logged |-> logged]

\* a handler suspended at its await
Await(req, call) ==
    [pc |-> "await", req |-> req, stage |-> "route", resp |-> << >>,
     calls |-> << call >>, got |-> << >>, minted |-> << >>, logged |-> << >>]

Ok(n) == [ok |-> TRUE, count |-> n, err |-> Undefined]
Failed(err) == [ok |-> FALSE, count |-> 0, err |-> Some(err)]

\* a continuation without a catch block: a failed gateway call rejects the
\* handler's promise and nothing is sent
ReplyUncaught(c, got, minted, logged, resp) ==
    conn' = [conn EXCEPT ![c] =
                [pc |-> IF got.ok THEN "done" ELSE "rejected",
                 req |-> conn[c].req, stage |-> "route",
                 resp |-> IF got.ok THEN << resp >> ELSE << >>,
                 calls |-> conn[c].calls, got |-> << got >>,
                 minted |-> minted, logged |-> logged]]

\* a continuation that issues a failed gateway call once more before answering
ReplyRetrying(c, got, minted, logged, resp) ==
    conn' = [conn EXCEPT ![c] =
                [pc |-> "done", req |-> conn[c].req, stage |-> "route",
                 resp |-> << resp >>,
                 calls |-> IF got.ok THEN conn[c].calls
                           ELSE conn[c].calls \o conn[c].calls,
                 got |-> << got >>, minted |-> minted, logged |-> logged]]

\* the continuation after the awaited gateway call answers the caller
Reply(c, got, minted, logged, resp) ==
    conn' = [conn EXCEPT ![c] =
                [pc |-> "done", req |-> conn[c].req, stage |-> "route",
                 resp |-> << resp >>, calls |-> conn[c].calls, got |-> << got >>,
                 minted |-> minted, logged |-> logged]]

CanSend(c) == conn[c].pc # "await"

Awaiting(c, path) == conn[c].pc = "await" /\ conn[c].req.path = path

----------------------------------------------------------------------------
(* Route handlers *)

\* a generator that hands out the same value again
uuidv4Reused(n) == UuidPool[1]

\* uuid's v4(): a value it has not produced before
uuidv4(n) == UuidPool[n + 1]

\* a conflict test that is off by one
hasConflictMoreThanOne(items) == Cardinality(items) > 1

\* hasConflict: response.data.items.length > 0
hasConflict(items) == Cardinality(items) > 0

weekendResponse ==
    Response(200, [available |-> FALSE, reason |-> "weekend_not_allowed"])

doubleBookingResponse ==
    Response(200, [available |-> FALSE, reason |-> "double_booking"])

availableResponse(token) == Response(200, [available |-> TRUE, token |-> token])

\* a catch block that passes the upstream message on
checkErrorLeaky(err) == Response(500, [error |-> err.message])

\* hasConflict rethrows every gateway error as new Error("google_calendar_error"),
\* and the handler answers with that error's message
checkError(err) == Response(500, [error |-> "google_calendar_error"])

\* the catch blocks of /create, /update and /delete
gatewayError(err) == Response(500, [error |-> err.message])

noTokenResponse == Response(400, [error |-> "No reservation token"])

\* a token test that lets the empty string through
noTokenUndefinedOnly(token) == token = Undefined

\* !token
noToken(token) == Falsy(token)

\* POST /check up to its await
PostCheck(c, req) ==
    /\ CanSend(c)
    /\ req.method = "POST" /\ req.path = "/check"
    /\ Passes(req)
    /\ IF isWeekend(req.body.start)
       THEN conn' = [conn EXCEPT ![c] = Answered(req, "route", << >>, weekendResponse)]
       ELSE conn' = [conn EXCEPT ![c] =
                        Await(req, Call("list", Undefined, req.body.start, req.body.end))]
    /\ UNCHANGED <<variant, REQUIRED_KEY, calendar, nextId, uuidCount, issued>>

\* events.list answers and POST /check resumes
CheckReply(c) ==
    /\ Awaiting(c, "/check")
    /\ LET call  == conn[c].calls[1]
           items == listItems(calendar, call.start, call.end)
       IN  \/ \E err \in GatewayErrors :
                /\ Reply(c, Failed(err), << >>,
                         << consoleError("Google Calendar error:", err) >>,
                         checkError(err))
                /\ UNCHANGED <<uuidCount, issued>>
           \/ /\ RangeOk(call.start, call.end)
              /\ hasConflict(items)
              /\ Reply(c, Ok(Cardinality(items)), << >>, << >>, doubleBookingResponse)
              /\ UNCHANGED <<uuidCount, issued>>
           \/ /\ RangeOk(call.start, call.end)
              /\ ~hasConflict(items)
              /\ uuidCount < MaxTokens
              /\ LET token == uuidv4(uuidCount)
                 IN  /\ Reply(c, Ok(Cardinality(items)), << token >>, << >>,
                              availableResponse(token))
                     /\ issued' = Append(issued, token)
              /\ uuidCount' = uuidCount + 1
    /\ UNCHANGED <<variant, REQUIRED_KEY, calendar, nextId>>

\* a /create that looks the slot up again and refuses a taken one
PostCreateRevalidating(c, req) ==
    /\ CanSend(c)
    /\ req.method = "POST" /\ req.path = "/create"
    /\ Passes(req)
    /\ IF noToken(req.body.token)
       THEN conn' = [conn EXCEPT ![c] = Answered(req, "route", << >>, noTokenResponse)]
       ELSE IF listItems(calendar, req.body.start, req.body.end) # {}
       THEN conn' = [conn EXCEPT ![c] = Answered(req, "route", << >>,
                                                 Response(409, [error |-> "Slot taken"]))]
       ELSE conn' = [conn EXCEPT ![c] =
                        Await(req, Call("insert", Undefined, req.body.start, req.body.end))]
    /\ UNCHANGED <<variant, REQUIRED_KEY, calendar, nextId, uuidCount, issued>>

\* a /create that applies the weekend rule of /check
PostCreateWeekdaysOnly(c, req) ==
    /\ CanSend(c)
    /\ req.method = "POST" /\ req.path = "/create"
    /\ Passes(req)
    /\ IF noToken(req.body.token)
       THEN conn' = [conn EXCEPT ![c] = Answered(req, "route", << >>, noTokenResponse)]
       ELSE IF isWeekend(req.body.start)
       THEN conn' = [conn EXCEPT ![c] = Answered(req, "route", << >>, weekendResponse)]
       ELSE conn' = [conn EXCEPT ![c] =
                        Await(req, Call("insert", Undefined, req.body.start, req.body.end))]
    /\ UNCHANGED <<variant, REQUIRED_KEY, calendar, nextId, uuidCount, issued>>

\* POST /create up to its await
PostCreate(c, req) ==
    /\ CanSend(c)
    /\ req.method = "POST" /\ req.path = "/create"
    /\ Passes(req)
    /\ IF noToken(req.body.token)
       THEN conn' = [conn EXCEPT ![c] = Answered(req, "route", << >>, noTokenResponse)]
       ELSE conn' = [conn EXCEPT ![c] =
                        Await(req, Call("insert", Undefined, req.body.start, req.body.end))]
    /\ UNCHANGED <<variant, REQUIRED_KEY, calendar, nextId, uuidCount, issued>>

\* events.insert answers and POST /create resumes
CreateReply(c) ==
    /\ Awaiting(c, "/create")
    /\ LET call == conn[c].calls[1]
       IN  \/ \E err \in GatewayErrors :
                /\ Reply(c, Failed(err), << >>, << consoleError("Create error:", err) >>,
                         gatewayError(err))
                /\ UNCHANGED <<calendar, nextId>>
           \/ /\ SlotOk(call.start, call.end)
              /\ nextId < MaxEvents
              /\ calendar' = calendar \cup {Event(nextId + 1, call.start[1], call.end[1])}
              /\ nextId' = nextId + 1
              /\ Reply(c, Ok(0), << >>, << >>,
                       Response(200, [success |-> TRUE, eventId |-> nextId + 1]))
    /\ UNCHANGED <<variant, REQUIRED_KEY, uuidCount, issued>>

\* googleapis rejects a call that lacks a required parameter before sending it
missingEventId == [message |-> "Missing required parameters: eventId", data |-> Undefined]

\* POST /update up to its await
PostUpdate(c, req) ==
    /\ CanSend(c)
    /\ req.method = "POST" /\ req.path = "/update"
    /\ Passes(req)
    /\ IF req.body.eventId = Undefined
       THEN conn' = [conn EXCEPT ![c] =
                        Answered(req, "route",
                                 << consoleError("Update error:", missingEventId) >>,
                                 gatewayError(missingEventId))]
       ELSE conn' = [conn EXCEPT ![c] =
                        Await(req, Call("patch", req.body.eventId, req.body.start,
                                        req.body.end))]
    /\ UNCHANGED <<variant, REQUIRED_KEY, calendar, nextId, uuidCount, issued>>

\* events.patch answers and POST /update resumes
UpdateReply(c) ==
    /\ Awaiting(c, "/update")
    /\ LET call == conn[c].calls[1]
       IN  \/ \E err \in GatewayErrors :
                /\ Reply(c, Failed(err), << >>, << consoleError("Update error:", err) >>,
                         gatewayError(err))
                /\ UNCHANGED calendar
           \/ \E e \in calendar :
                /\ e.id = call.eventId[1]
                /\ SlotOk(call.start, call.end)
                /\ LET updated == Event(e.id, call.start[1], call.end[1])
                   IN  /\ calendar' = (calendar \ {e}) \cup {updated}
                       /\ Reply(c, Ok(0), << >>, << >>,
                                Response(200, [success |-> TRUE, event |-> updated]))
    /\ UNCHANGED <<variant, REQUIRED_KEY, nextId, uuidCount, issued>>

\* POST /delete up to its await
PostDelete(c, req) ==
    /\ CanSend(c)
    /\ req.method = "POST" /\ req.path = "/delete"
    /\ Passes(req)
    /\ IF req.body.eventId = Undefined
       THEN conn' = [conn EXCEPT ![c] =
                        Answered(req, "route",
                                 << consoleError("Delete error:", missingEventId) >>,
                                 gatewayError(missingEventId))]
       ELSE conn' = [conn EXCEPT ![c] =
                        Await(req, Call("delete", req.body.eventId, Undefined, Undefined))]
    /\ UNCHANGED <<variant, REQUIRED_KEY, calendar, nextId, uuidCount, issued>>

\* events.delete answers and POST /delete resumes
DeleteReply(c) ==
    /\ Awaiting(c, "/delete")
    /\ LET call == conn[c].calls[1]
       IN  \/ \E err \in GatewayErrors :
                /\ Reply(c, Failed(err), << >>, << consoleError("Delete error:", err) >>,
                         gatewayError(err))
                /\ UNCHANGED calendar
           \/ \E e \in calendar :
                /\ e.id = call.eventId[1]
                /\ calendar' = calendar \ {e}
                /\ Reply(c, Ok(0), << >>, << >>, Response(200, [success |-> TRUE]))
    /\ UNCHANGED <<variant, REQUIRED_KEY, nextId, uuidCount, issued>>

\* cors() ends an OPTIONS request before the auth middleware sees it
CorsPreflight(c, req) ==
    /\ CanSend(c)
    /\ corsPreflight(req)
    /\ conn' = [conn EXCEPT ![c] =
                   Answered(req, "cors", << >>, Response(204, [ok |-> TRUE]))]
    /\ UNCHANGED <<variant, REQUIRED_KEY, calendar, nextId, uuidCount, issued>>

\* the auth middleware answers the request itself (its sendStatus(200) for
\* OPTIONS is never reached: cors() has answered those)
AuthDeny(c, req) ==
    /\ CanSend(c)
    /\ ~corsPreflight(req)
    /\ LET a == auth(variant, req, REQUIRED_KEY)
       IN  /\ a # "next"
           /\ conn' = [conn EXCEPT ![c] =
                          Answered(req, "auth", << >>,
                                   IF a = "401" THEN Unauthorized
                                   ELSE Response(200, [ok |-> TRUE]))]
    /\ UNCHANGED <<variant, REQUIRED_KEY, calendar, nextId, uuidCount, issued>>

\* GET /status
GetStatus(c, req) ==
    /\ CanSend(c)
    /\ req.method = "GET" /\ req.path = "/status"
    /\ Passes(req)
    /\ conn' = [conn EXCEPT ![c] =
                   Answered(req, "route", << >>,
                            IF variant = "server.js"
                            THEN Response(200, [ok |-> TRUE])
                            ELSE Response(200, [status |-> "ok"]))]
    /\ UNCHANGED <<variant, REQUIRED_KEY, calendar, nextId, uuidCount, issued>>

\* GET on a tool route: part_001 registers GET versions answering {ok: true};
\* the other variants have no such route and Express answers 404
GetTool(c, req) ==
    /\ CanSend(c)
    /\ req.method = "GET" /\ req.path \in ToolPaths
    /\ Passes(req)
    /\ conn' = [conn EXCEPT ![c] =
                   Answered(req, "route", << >>,
                            IF variant = "part_001"
                            THEN Response(200, [ok |-> TRUE])
                            ELSE Response(404, [error |-> "Cannot GET"]))]
    /\ UNCHANGED <<variant, REQUIRED_KEY, calendar, nextId, uuidCount, issued>>

----------------------------------------------------------------------------
(* The requests the callers send *)

\* a non-empty body for each tool route, sent by callers without the key
SampleBody(path) ==
    CASE path = "/check"  -> Body(Some(SatZ), Some(PlusHour(SatZ)), Undefined,
                                  Undefined, Undefined)
      [] path = "/create" -> Body(Some(MonZ), Some(PlusHour(MonZ)), Some("forged"),
                                  Undefined, Some("Cleaning"))
      [] path = "/update" -> Body(Some(MonZ), Some(PlusHour(MonZ)), Undefined,
                                  Some(1), Undefined)
      [] path = "/delete" -> Body(Undefined, Undefined, Undefined, Some(1), Undefined)

Requests ==
    UNION {{Request("POST", p, Some("secret"), b) : b \in BodiesOf(p)} :
                p \in ToolPaths}
        \cup UNION {{Request("POST", p, k, b) :
                        k \in Keys \ {Some("secret")},
                        b \in {EmptyBody, SampleBody(p)}} : p \in ToolPaths}
        \cup {Request("OPTIONS", "/check", Undefined, b) :
                b \in {EmptyBody, SampleBody("/check")}}
        \cup {Request("OPTIONS", "/check", Some("wrong"), EmptyBody)}
        \cup {Request("GET", "/check", k, EmptyBody) :
                k \in {Undefined, Some("wrong"), Some("secret")}}
        \cup {Request("GET", "/status", Undefined, EmptyBody)}

Init ==
    /\ variant \in Variants
    /\ REQUIRED_KEY \in {Undefined, Some("secret")}
    /\ calendar = {}
    /\ nextId = 0
    /\ uuidCount = 0
    /\ issued = << >>
    /\ conn = [c \in {"A"} |-> Idle]

Preflight == \E c \in DOMAIN conn, req \in Requests : CorsPreflight(c, req)
Deny      == \E c \in DOMAIN conn, req \in Requests : AuthDeny(c, req)
Status    == \E c \in DOMAIN conn, req \in Requests : GetStatus(c, req)
Probe     == \E c \in DOMAIN conn, req \in Requests : GetTool(c, req)
Check     == \E c \in DOMAIN conn, req \in Requests : PostCheck(c, req)
Create    == \E c \in DOMAIN conn, req \in Requests : PostCreate(c, req)
Update    == \E c \in DOMAIN conn, req \in Requests : PostUpdate(c, req)
Delete    == \E c \in DOMAIN conn, req \in Requests : PostDelete(c, req)
CheckDone  == \E c \in DOMAIN conn : CheckReply(c)
CreateDone == \E c \in DOMAIN conn : CreateReply(c)
UpdateDone == \E c \in DOMAIN conn : UpdateReply(c)
DeleteDone == \E c \in DOMAIN conn : DeleteReply(c)

Next ==
    \/ Preflight
    \/ Deny
    \/ Status
    \/ Probe
    \/ Check
    \/ Create
    \/ Update
    \/ Delete
    \/ CheckDone
    \/ CreateDone
    \/ UpdateDone
    \/ DeleteDone

Spec == Init /\ [][Next]_vars

----------------------------------------------------------------------------
(* Two callers at once, both holding the key, booking the same slot *)

PairSlot == MonZ

PairBody(t, id) ==
    Body(Some(PairSlot), Some(PlusHour(PairSlot)), t, id, Undefined)

PairRequests ==
    {Request("POST", "/check", Some("secret"), PairBody(Undefined, Undefined))}
        \cup {Request("POST", "/create", Some("secret"),
                      PairBody(Some(UuidPool[n]), Undefined)) : n \in 1..uuidCount}
        \cup {Request("POST", "/update", Some("secret"), PairBody(Undefined, Some(1))),
              Request("POST", "/delete", Some("secret"),
                      Body(Undefined, Undefined, Undefined, Some(1), Undefined))}

InitPair ==
    /\ variant \in Variants
    /\ REQUIRED_KEY = Some("secret")
    /\ calendar = {}
    /\ nextId = 0
    /\ uuidCount = 0
    /\ issued = << >>
    /\ conn = [c \in {"A", "B"} |-> Idle]

PairCheck  == \E c \in DOMAIN conn, req \in PairRequests : PostCheck(c, req)
PairCreate == \E c \in DOMAIN conn, req \in PairRequests : PostCreate(c, req)
PairUpdate == \E c \in DOMAIN conn, req \in PairRequests : PostUpdate(c, req)
PairDelete == \E c \in DOMAIN conn, req \in PairRequests : PostDelete(c, req)

NextPair ==
    \/ PairCheck
    \/ PairCreate
    \/ PairUpdate
    \/ PairDelete
    \/ CheckDone
    \/ CreateDone
    \/ UpdateDone
    \/ DeleteDone

SpecPair == InitPair /\ [][NextPair]_vars

\* the awaited gateway promise settles (the gateway answers or fails), and the
\* event loop then runs the handler's continuation
Settles ==
    /\ WF_vars(CheckDone)
    /\ WF_vars(CreateDone)
    /\ WF_vars(UpdateDone)
    /\ WF_vars(DeleteDone)

\* one request for each way through the middleware and the handlers: with and
\* without the key, with an empty and with a filled body, on every tool route
LiveRequests ==
    UNION {{Request("POST", p, k, b) :
                k \in {Undefined, Some("wrong"), Some("secret")},
                b \in {EmptyBody, SampleBody(p)}} : p \in ToolPaths}
        \cup {Request("POST", "/check", Some("secret"),
                      Body(Some(MonZ), Some(PlusHour(MonZ)), Undefined, Undefined,
                           Undefined)),
              Request("OPTIONS", "/check", Undefined, EmptyBody),
              Request("GET", "/check", Some("secret"), EmptyBody),
              Request("GET", "/status", Undefined, EmptyBody)}

LivePreflight == \E c \in DOMAIN conn, req \in LiveRequests : CorsPreflight(c, req)
LiveDeny      == \E c \in DOMAIN conn, req \in LiveRequests : AuthDeny(c, req)
LiveStatus    == \E c \in DOMAIN conn, req \in LiveRequests : GetStatus(c, req)
LiveProbe     == \E c \in DOMAIN conn, req \in LiveRequests : GetTool(c, req)
LiveCheck     == \E c \in DOMAIN conn, req \in LiveRequests : PostCheck(c, req)
LiveCreate    == \E c \in DOMAIN conn, req \in LiveRequests : PostCreate(c, req)
LiveUpdate    == \E c \in DOMAIN conn, req \in LiveRequests : PostUpdate(c, req)
LiveDelete    == \E c \in DOMAIN conn, req \in LiveRequests : PostDelete(c, req)

NextLive ==
    \/ LivePreflight
    \/ LiveDeny
    \/ LiveStatus
    \/ LiveProbe
    \/ LiveCheck
    \/ LiveCreate
    \/ LiveUpdate
    \/ LiveDelete
    \/ CheckDone
    \/ CreateDone
    \/ UpdateDone
    \/ DeleteDone

SpecLive == Init /\ [][NextLive]_vars /\ Settles

----------------------------------------------------------------------------
(* One caller with the key who books: /check for a Monday slot, and /create
   for weekend and weekday slots with a made-up token or an issued one *)

BookingStarts == {SatZ, MonNZ, MonZ}

BookingRequests ==
    {Request("POST", "/check", Some("secret"),
             Body(Some(MonZ), Some(PlusHour(MonZ)), Undefined, Undefined, Undefined))}
        \cup {Request("POST", "/create", Some("secret"),
                      Body(Some(s), Some(PlusHour(s)), Some(t), Undefined,
                           Some("Cleaning"))) :
                s \in BookingStarts,
                t \in {"forged"} \cup {UuidPool[n] : n \in 1..uuidCount}}

InitBooking ==
    /\ variant \in Variants
    /\ REQUIRED_KEY = Some("secret")
    /\ calendar = {}
    /\ nextId = 0
    /\ uuidCount = 0
    /\ issued = << >>
    /\ conn = [c \in {"A"} |-> Idle]

BookingCheck  == \E c \in DOMAIN conn, req \in BookingRequests : PostCheck(c, req)
BookingCreate == \E c \in DOMAIN conn, req \in BookingRequests : PostCreate(c, req)

NextBooking ==
    \/ BookingCheck
    \/ BookingCreate
    \/ CheckDone
    \/ CreateDone

SpecBooking == InitBooking /\ [][NextBooking]_vars

----------------------------------------------------------------------------
(* Properties *)

Sent(c) == conn[c].pc # "idle"

Protected(req) == req.path \notin openPaths(variant)

AtRoute(c, path) ==
    /\ Sent(c)
    /\ conn[c].req.method = "POST"
    /\ conn[c].req.path = path
    /\ conn[c].stage = "route"

\* the day of the week, in UTC, of the instant a date-time string names
UtcWeekday(s) == ((DateParse(s) \div 24) + 5) % 7

\* C1, as claimed: in every variant (with a secret configured, and leaving CORS
\* preflights aside) a request to a protected path without an x-api-key header is
\* answered 401, and reaches no route handler, when its body is non-empty, and is
\* passed on to the route handler when its body is empty.
C1_AsClaimed ==
    \A c \in DOMAIN conn :
        (/\ Sent(c)
         /\ Protected(conn[c].req)
         /\ conn[c].req.key = Undefined
         /\ conn[c].req.method # "OPTIONS"
         /\ REQUIRED_KEY # Undefined)
            => IF ObjectKeys(conn[c].req.body) # {}
               THEN conn[c].stage = "auth" /\ conn[c].resp = << Unauthorized >>
               ELSE conn[c].stage = "route"

\* C1, amended: for a request other than OPTIONS to a protected path without an
\* x-api-key header, part_001 answers 401 whatever the body; server.js and part_000
\* pass an empty body on to the route handler, and answer a non-empty body with 401
\* when a secret is configured, and pass it on when none is.
C1_NoKeyByBody ==
    \A c \in DOMAIN conn :
        (/\ Sent(c)
         /\ Protected(conn[c].req)
         /\ conn[c].req.key = Undefined
         /\ conn[c].req.method # "OPTIONS")
            => IF variant = "part_001"
               THEN conn[c].stage = "auth" /\ conn[c].resp = << Unauthorized >>
               ELSE IF ObjectKeys(conn[c].req.body) = {} \/ REQUIRED_KEY = Undefined
               THEN conn[c].stage = "route"
               ELSE conn[c].stage = "auth" /\ conn[c].resp = << Unauthorized >>

\* an empty-body POST /check without a key has reached the handler of server.js
C1_Witness ==
    \E c \in DOMAIN conn :
        /\ variant = "server.js"
        /\ REQUIRED_KEY = Some("secret")
        /\ AtRoute(c, "/check")
        /\ conn[c].req.key = Undefined
        /\ ObjectKeys(conn[c].req.body) = {}
        /\ conn[c].calls # << >>

\* C2, as claimed: with MCP_API_KEY unset every request to a protected path (CORS
\* preflights aside) is answered 500 by the auth gate and reaches no route handler
\* and no gateway call.
C2_FailsClosed ==
    REQUIRED_KEY = Undefined
        => \A c \in DOMAIN conn :
                (Sent(c) /\ Protected(conn[c].req) /\ conn[c].req.method # "OPTIONS")
                    => /\ conn[c].stage # "route"
                       /\ conn[c].calls = << >>
                       /\ conn[c].pc = "done"
                       /\ conn[c].resp[1].status = 500

\* C3: a POST /check that reaches the handler with a start on a UTC Saturday or
\* Sunday is answered 200 {available:false, reason:"weekend_not_allowed"} without
\* a gateway call, whatever its end and whatever the calendar holds.
C3_WeekendRejected ==
    \A c \in DOMAIN conn :
        (/\ AtRoute(c, "/check")
         /\ conn[c].req.body.start # Undefined
         /\ UtcWeekday(conn[c].req.body.start[1]) \in {0, 6})
            => /\ conn[c].pc = "done"
               /\ conn[c].resp =
                    << Response(200, [available |-> FALSE,
                                      reason |-> "weekend_not_allowed"]) >>
               /\ conn[c].calls = << >>

\* a weekend /check over a range in which the calendar holds an event was rejected
C3_Witness ==
    \E c \in DOMAIN conn :
        /\ AtRoute(c, "/check")
        /\ conn[c].req.body.start = Some(SatZ)
        /\ conn[c].req.body.end = Some(Later)
        /\ listItems(calendar, Some(SatZ), Some(Later)) # {}
        /\ conn[c].resp = << weekendResponse >>

\* C4: a POST /check whose start is not on a UTC weekend and whose list call
\* returned at least one event is answered 200 {available:false,
\* reason:"double_booking"}, and no token is made for it.
C4_DoubleBooking ==
    \A c \in DOMAIN conn :
        (/\ AtRoute(c, "/check")
         /\ conn[c].pc = "done"
         /\ conn[c].got # << >>
         /\ conn[c].got[1].ok
         /\ conn[c].got[1].count >= 1)
            => /\ conn[c].resp =
                    << Response(200, [available |-> FALSE,
                                      reason |-> "double_booking"]) >>
               /\ conn[c].minted = << >>

\* a /check for the example's slot found the event booked there
C4_Witness ==
    \E c \in DOMAIN conn :
        /\ AtRoute(c, "/check")
        /\ conn[c].req.body.start = Some(SatNZ)
        /\ conn[c].got # << >>
        /\ conn[c].got[1].ok
        /\ conn[c].got[1].count >= 1
        /\ conn[c].resp = << doubleBookingResponse >>

\* C5: a POST /check whose start is not on a UTC weekend and whose list call
\* returned no event is answered 200 {available:true, token} with a non-empty
\* token, and no two tokens issued are equal.
C5_FreshToken ==
    /\ \A c \in DOMAIN conn :
            (/\ AtRoute(c, "/check")
             /\ conn[c].pc = "done"
             /\ conn[c].got # << >>
             /\ conn[c].got[1].ok
             /\ conn[c].got[1].count = 0)
                => /\ conn[c].resp[1].status = 200
                   /\ DOMAIN conn[c].resp[1].body = {"available", "token"}
                   /\ conn[c].resp[1].body.available = TRUE
                   /\ conn[c].resp[1].body.token # ""
                   /\ conn[c].minted = << conn[c].resp[1].body.token >>
    /\ \A i, j \in 1..Len(issued) : i # j => issued[i] # issued[j]

\* a second token has been issued
C5_Witness ==
    \E c \in DOMAIN conn :
        /\ AtRoute(c, "/check")
        /\ Len(issued) = 2
        /\ conn[c].resp = << availableResponse(issued[2]) >>

\* C6: a POST /create whose token is absent or empty is answered 400
\* {error:"No reservation token"} and issues no gateway call.
C6_NoTokenRejected ==
    \A c \in DOMAIN conn :
        (/\ AtRoute(c, "/create")
         /\ conn[c].req.body.token \in {Undefined, Some("")})
            => /\ conn[c].pc = "done"
               /\ conn[c].resp =
                    << Response(400, [error |-> "No reservation token"]) >>
               /\ conn[c].calls = << >>

\* the spec's example: token "", title "Cleaning"
C6_Witness ==
    \E c \in DOMAIN conn :
        /\ AtRoute(c, "/create")
        /\ conn[c].req.key = Some("secret")
        /\ conn[c].req.body.token = Some("")
        /\ conn[c].req.body.title = Some("Cleaning")
        /\ conn[c].resp = << noTokenResponse >>

\* C7: nothing in /create looks at the calendar or at the other caller: every
\* /create with a non-empty token issues its insert, and answers with success
\* whenever the gateway accepts it; so two callers who were both told
\* "available" for one slot can both book it.
C7_CreateUnconditional ==
    \A c \in DOMAIN conn :
        (AtRoute(c, "/create") /\ ~Falsy(conn[c].req.body.token))
            => /\ conn[c].calls =
                    << Call("insert", Undefined, conn[c].req.body.start,
                            conn[c].req.body.end) >>
               /\ (conn[c].pc = "done" /\ conn[c].got[1].ok)
                    => /\ conn[c].resp[1].status = 200
                       /\ conn[c].resp[1].body.success = TRUE

\* both callers hold a token issued for the slot, both /create succeeded, and the
\* calendar holds the two events for the same interval
C7_DoubleBooked ==
    /\ DOMAIN conn = {"A", "B"}
    /\ \A c \in DOMAIN conn :
            /\ AtRoute(c, "/create")
            /\ conn[c].pc = "done"
            /\ conn[c].req.body.start = Some(PairSlot)
            /\ conn[c].req.body.end = Some(PlusHour(PairSlot))
            /\ \E n \in 1..Len(issued) : conn[c].req.body.token = Some(issued[n])
            /\ conn[c].resp[1].status = 200
            /\ Event(conn[c].resp[1].body.eventId, PairSlot, PlusHour(PairSlot))
                    \in calendar
    /\ conn["A"].req.body.token # conn["B"].req.body.token
    /\ conn["A"].resp[1].body.eventId # conn["B"].resp[1].body.eventId

GatewayFailed(c) ==
    /\ conn[c].pc = "done"
    /\ conn[c].got # << >>
    /\ ~conn[c].got[1].ok

\* C8, as claimed: the response to a failed gateway call of /create, /update or
\* /delete does not depend on what the gateway reported: two identical requests
\* whose gateway calls failed are answered identically.
C8_FailureBodyGeneric ==
    \A c1, c2 \in DOMAIN conn :
        (/\ Sent(c1) /\ Sent(c2)
         /\ conn[c1].req.path \in {"/create", "/update", "/delete"}
         /\ conn[c1].stage = "route"
         /\ conn[c2].stage = "route"
         /\ conn[c1].req = conn[c2].req
         /\ GatewayFailed(c1)
         /\ GatewayFailed(c2))
            => conn[c1].resp = conn[c2].resp

\* C9: when the list call of a POST /check fails, the response is 500
\* {error:"google_calendar_error"}, the same for every upstream failure, and no
\* token is made.
C9_CheckFailureGeneric ==
    \A c \in DOMAIN conn :
        (AtRoute(c, "/check") /\ GatewayFailed(c))
            => /\ conn[c].resp =
                    << Response(500, [error |-> "google_calendar_error"]) >>
               /\ conn[c].minted = << >>

\* a list call failed with an upstream message and detail
C9_Witness ==
    \E c \in DOMAIN conn :
        /\ AtRoute(c, "/check")
        /\ GatewayFailed(c)
        /\ conn[c].got[1].err[1].message = "Rate Limit Exceeded"
        /\ conn[c].got[1].err[1].data # Undefined
        /\ conn[c].resp[1].status = 500

\* C10, as claimed: POST /check with start 2024-06-08T09:00:00+12:00 and end
\* 2024-06-08T10:00:00+12:00 is answered {available:false,
\* reason:"weekend_not_allowed"}.
C10_LocalSaturdayRejected ==
    \A c \in DOMAIN conn :
        (/\ AtRoute(c, "/check")
         /\ conn[c].req.body.start = Some(Stamp(8, 9, 12))
         /\ conn[c].req.body.end = Some(Stamp(8, 10, 12))
         /\ conn[c].pc = "done")
            => conn[c].resp =
                    << Response(200, [available |-> FALSE,
                                      reason |-> "weekend_not_allowed"]) >>

\* a POST /create that the gateway accepted and that was answered with success
Created(c) ==
    /\ AtRoute(c, "/create")
    /\ conn[c].pc = "done"
    /\ conn[c].got[1].ok
    /\ conn[c].resp[1].status = 200

\* C11, as claimed: a reservation token is single-use: at most one event is ever
\* created per issued token, so no two POST /create that presented the same
\* token were both answered with the id of an inserted event.
C11_TokenSingleUse ==
    \A c1, c2 \in DOMAIN conn :
        (/\ c1 # c2
         /\ Created(c1)
         /\ Created(c2)
         /\ conn[c1].req.body.token = conn[c2].req.body.token)
            => conn[c1].resp[1].body.eventId = conn[c2].resp[1].body.eventId

\* the caller put an x-api-key header on the request, and its value is not the
\* configured secret
WrongKey(c) ==
    /\ Sent(c)
    /\ Protected(conn[c].req)
    /\ conn[c].req.key # Undefined
    /\ conn[c].req.key # REQUIRED_KEY

Rejected(c) ==
    /\ conn[c].stage = "auth"
    /\ conn[c].resp = << Response(401, [error |-> "Unauthorized"]) >>
    /\ conn[c].calls = << >>

\* C12, as claimed: every request to a protected path whose x-api-key differs
\* from the configured secret is answered 401 {error: "Unauthorized"}, whatever
\* its method and body, and no route handler runs.
C12_AsClaimed ==
    \A c \in DOMAIN conn : WrongKey(c) => Rejected(c)

\* C12, amended: a request other than a CORS preflight to a protected path whose
\* x-api-key differs from the configured secret is answered 401
\* {error: "Unauthorized"} by the auth middleware, without a gateway call,
\* whatever its method and body; except that server.js and part_000 take an
\* empty header value for a missing header and pass such a request on to the
\* route when its body is empty.  Every answer of the auth middleware is that
\* same 401.
C12_WrongKeyRejected ==
    \A c \in DOMAIN conn :
        /\ (WrongKey(c) /\ conn[c].req.method # "OPTIONS")
                => IF /\ conn[c].req.key = Some("")
                      /\ ObjectKeys(conn[c].req.body) = {}
                      /\ variant # "part_001"
                   THEN conn[c].stage = "route"
                   ELSE Rejected(c)
        /\ (Sent(c) /\ conn[c].stage = "auth") => Rejected(c)

\* a GET with a wrong key and an empty body was turned away by the middleware
\* that lets keyless empty-body requests through
C12_Witness ==
    /\ variant = "server.js"
    /\ REQUIRED_KEY = Some("secret")
    /\ \E c \in DOMAIN conn :
            /\ WrongKey(c)
            /\ conn[c].req.key = Some("wrong")
            /\ conn[c].req.body = EmptyBody
            /\ conn[c].req.method = "GET"
            /\ Rejected(c)

\* C13, as claimed: (with a secret configured) a request that does not carry the
\* configured secret in x-api-key never causes a gateway call and is never
\* handed a reservation token, whatever its body.
C13_NoGatewayWithoutKey ==
    \A c \in DOMAIN conn :
        (/\ Sent(c)
         /\ Protected(conn[c].req)
         /\ REQUIRED_KEY # Undefined
         /\ conn[c].req.key # REQUIRED_KEY)
            => /\ conn[c].calls = << >>
               /\ conn[c].minted = << >>

\* the gateway operation each tool route uses
RouteOp(path) ==
    CASE path = "/check"  -> "list"
      [] path = "/create" -> "insert"
      [] path = "/update" -> "patch"
      [] path = "/delete" -> "delete"
      [] OTHER -> "none"

\* C14: each request causes at most one gateway call, the one of its route, and
\* at most one outcome of it; a request answered 401, a /check whose start is on
\* a UTC weekend and a /create without a token cause none; and a request whose
\* gateway call failed has made exactly that one call (no retry) and is answered
\* with an error.
C14_AtMostOneCall ==
    \A c \in DOMAIN conn :
        Sent(c) =>
            /\ Len(conn[c].calls) <= 1
            /\ Len(conn[c].got) <= Len(conn[c].calls)
            /\ conn[c].calls # << >>
                    => /\ conn[c].stage = "route"
                       /\ conn[c].calls[1].op = RouteOp(conn[c].req.path)
            /\ (conn[c].resp # << >> /\ conn[c].resp[1].status = 401)
                    => conn[c].calls = << >>
            /\ (/\ AtRoute(c, "/check")
                /\ conn[c].req.body.start # Undefined
                /\ UtcWeekday(conn[c].req.body.start[1]) \in {0, 6})
                    => conn[c].calls = << >>
            /\ (AtRoute(c, "/create") /\ Falsy(conn[c].req.body.token))
                    => conn[c].calls = << >>
            /\ GatewayFailed(c)
                    => /\ Len(conn[c].calls) = 1
                       /\ Len(conn[c].got) = 1
                       /\ conn[c].resp[1].status = 500

\* an insert the gateway refused: one call was made, and the caller has its 500
C14_Witness ==
    \E c \in DOMAIN conn :
        /\ AtRoute(c, "/create")
        /\ GatewayFailed(c)
        /\ conn[c].calls = << Call("insert", Undefined, conn[c].req.body.start,
                                   conn[c].req.body.end) >>
        /\ conn[c].resp[1].status = 500

\* C15: POST /create asks of the token only that it is there.  Whatever
\* non-empty token comes with the request (made up or issued), and whatever the
\* interval (on a weekend, or already taken), the handler calls events.insert
\* for that interval; and when the gateway accepts the insert, the answer is
\* {success: true, eventId} with the id the gateway gave the new event.
C15_TokenOnlyRequired ==
    \A c \in DOMAIN conn :
        (AtRoute(c, "/create") /\ conn[c].req.body.token \notin {Undefined, Some("")})
            => LET body == conn[c].req.body
               IN  /\ Len(conn[c].calls) = 1
                   /\ conn[c].calls[1].op = "insert"
                   /\ conn[c].calls[1].start = body.start
                   /\ conn[c].calls[1].end = body.end
                   /\ (conn[c].pc = "done" /\ conn[c].got[1].ok)
                        => /\ conn[c].resp =
                                << Response(200, [success |-> TRUE,
                                                  eventId |-> nextId]) >>
                           /\ Event(nextId, body.start[1], body.end[1]) \in calendar

\* a made-up token booked a Saturday slot that already held an event
C15_Witness ==
    \E c \in DOMAIN conn :
        /\ Created(c)
        /\ conn[c].req.body.token = Some("forged")
        /\ conn[c].req.body.start = Some(SatZ)
        /\ isWeekend(conn[c].req.body.start)
        /\ calendar = {Event(1, SatZ, PlusHour(SatZ)), Event(2, SatZ, PlusHour(SatZ))}
        /\ conn[c].resp[1].body.eventId = 2

\* a POST to one of the four tool routes that was not a CORS preflight
ToolPost(c) ==
    /\ Sent(c)
    /\ conn[c].req.method = "POST"
    /\ conn[c].req.path \in ToolPaths

\* the gateway call a tool route makes for a request body
CallFor(req) ==
    CASE req.path = "/check"  -> Call("list", Undefined, req.body.start, req.body.end)
      [] req.path = "/create" -> Call("insert", Undefined, req.body.start, req.body.end)
      [] req.path = "/update" -> Call("patch", req.body.eventId, req.body.start,
                                      req.body.end)
      [] req.path = "/delete" -> Call("delete", req.body.eventId, Undefined, Undefined)

\* C16, as claimed: the variants differ in nothing a caller of the tool routes
\* can see: whatever one variant decided for a POST to /check, /create, /update
\* or /delete (pass it to the route, or turn it away), each of the other
\* variants decides the same for that request.
C16_AsClaimed ==
    \A c \in DOMAIN conn :
        ToolPost(c) =>
            \A v \in Variants :
                (auth(v, conn[c].req, REQUIRED_KEY) = "next")
                    <=> (conn[c].stage = "route")

\* C16, amended: for a POST to a tool route, server.js and part_000 always
\* decide alike, and all three variants decide alike when the request carries a
\* non-empty x-api-key.  Without one, part_001 answers 401 whatever the body,
\* while server.js and part_000 pass the request on when its body is empty or
\* when no secret is configured and the header is absent.  Whichever variant
\* runs the route, the gateway call is the one the request body determines.
C16_SameUnlessNoKey ==
    \A c \in DOMAIN conn :
        ToolPost(c) =>
            LET req == conn[c].req
                routed == conn[c].stage = "route"
            IN  /\ auth("server.js", req, REQUIRED_KEY)
                        = auth("part_000", req, REQUIRED_KEY)
                /\ ~Falsy(req.key)
                        => \A v \in Variants :
                                (auth(v, req, REQUIRED_KEY) = "next") <=> routed
                /\ Falsy(req.key)
                        => /\ auth("part_001", req, REQUIRED_KEY) = "401"
                           /\ (variant # "part_001")
                                => (routed <=> (\/ ObjectKeys(req.body) = {}
                                                \/ req.key = REQUIRED_KEY))
                /\ conn[c].calls # << >>
                        => (routed /\ conn[c].calls = << CallFor(req) >>)

\* server.js, with its secret configured, has passed a keyless POST /check with
\* an empty body on to the route, and the route has called the gateway; part_001
\* would have answered that request 401
C16_Witness ==
    /\ variant = "server.js"
    /\ REQUIRED_KEY = Some("secret")
    /\ \E c \in DOMAIN conn :
            /\ ToolPost(c)
            /\ conn[c].req.path = "/check"
            /\ conn[c].req.key = Undefined
            /\ conn[c].req.body = EmptyBody
            /\ conn[c].pc = "done"
            /\ conn[c].calls = << CallFor(conn[c].req) >>
            /\ auth("part_001", conn[c].req, REQUIRED_KEY) = "401"

\* C17: every request gets exactly one response.  No request ever has two;
\* a request has its response exactly when its handling has ended; and, the
\* gateway call being one that returns or fails, every request that was
\* received is eventually answered.
C17_ExactlyOneResponse ==
    /\ [](\A c \in DOMAIN conn :
            /\ Len(conn[c].resp) <= 1
            /\ (conn[c].pc = "done") <=> (Len(conn[c].resp) = 1))
    /\ \A c \in {"A"} : Sent(c) ~> (conn[c].pc = "done")

\* a /delete whose gateway call failed has been answered, once
C17_Witness ==
    \E c \in DOMAIN conn :
        /\ AtRoute(c, "/delete")
        /\ GatewayFailed(c)
        /\ Len(conn[c].resp) = 1
        /\ conn[c].resp[1].status = 500

====
